---- MODULE Spec2Model ----
(***************************************************************************)
(* Model of the Sanafi gasless relay (src/index.js): an Express server     *)
(* with a health route and two transaction-submission routes.  One request *)
(* is followed from its arrival to its response; the handler is cut at its *)
(* await points, where the outcome of the outbound call is chosen by the   *)
(* environment (the provider, the Solana RPC node).                        *)
(*                                                                         *)
(* JavaScript values are records [t, s, l]: the type tag, the string       *)
(* payload and the list payload.  Template literals and concatenated       *)
(* messages are records of their parts, since TLA+ strings are atomic.     *)
(***************************************************************************)
EXTENDS Integers, Sequences, FiniteSets

VARIABLES env, req, pc, locals, calls, responses

vars == <<env, req, pc, locals, calls, responses>>

\* Longest signedTx array a request body carries.
MaxBatch == 2

---------------------------------------------------------------------------
\* JavaScript values

JsUndefined == [t |-> "undefined", s |-> "", l |-> <<>>]
JsNull == [t |-> "null", s |-> "", l |-> <<>>]
JsStr(x) == [t |-> "string", s |-> x, l |-> <<>>]
JsNum(x) == [t |-> "number", s |-> x, l |-> <<>>]
JsObj(x) == [t |-> "object", s |-> x, l |-> <<>>]
JsArr(xs) == [t |-> "array", s |-> "", l |-> xs]

\* JavaScript truthiness, as used by `!x`, `a || b` and `if (x)`.
Truthy(v) ==
  CASE v.t = "undefined" -> FALSE
    [] v.t = "null" -> FALSE
    [] v.t = "string" -> v.s # ""
    [] v.t = "number" -> v.s \notin {"0", "NaN"}
    [] OTHER -> TRUE

\* `${v}` in a template literal.
TemplateString(v) ==
  CASE v.t = "undefined" -> "undefined"
    [] v.t = "null" -> "null"
    [] v.t = "object" -> "[object Object]"
    [] v.t = "array" -> "<array>"
    [] OTHER -> v.s

\* a || b
OrElse(a, b) == IF Truthy(a) THEN a ELSE b

---------------------------------------------------------------------------
\* Input domains

AppIds == {JsUndefined, JsStr(""), JsStr("app-1")}
AppSecrets == {JsUndefined, JsStr("secret-1")}
FeePayerIds == {JsUndefined, JsStr("wallet-1")}
Networks == {JsUndefined, JsStr(""), JsStr("mainnet-beta"), JsStr("devnet"), JsStr("testnet")}

Envs ==
  [PRIVY_APP_ID : AppIds, PRIVY_APP_SECRET : AppSecrets,
   PRIVY_FEE_PAYER_WALLET_ID : FeePayerIds, SOLANA_NETWORK : Networks]

\* base64 strings a client may send, and the bytes they decode to
Base64Strings == {"b64:txA", "b64:txB", "b64:junk"}

Blobs == {JsStr(b) : b \in Base64Strings}

RECURSIVE SeqsUpTo(_, _)
SeqsUpTo(S, n) ==
  IF n = 0 THEN {<<>>}
  ELSE LET shorter == SeqsUpTo(S, n - 1)
       IN shorter \cup {Append(q, x) : q \in {r \in shorter : Len(r) = n - 1}, x \in S}

FieldValues == {JsUndefined, JsNull, JsStr(""), JsNum("0"), JsNum("5")} \cup Blobs

BatchValues == {JsUndefined} \cup {JsArr(xs) : xs \in SeqsUpTo({"b64:txA", "b64:junk"}, MaxBatch)}

\* Request bodies: each field on its own over all its values, and the
\* combinations of a present blob with the other fields.
Bodies ==
  [signedTransaction : FieldValues, serializedTransaction : {JsUndefined},
   walletAddress : {JsUndefined}, signedTx : {JsUndefined}]
  \cup [signedTransaction : {JsUndefined}, serializedTransaction : FieldValues,
        walletAddress : {JsUndefined}, signedTx : {JsUndefined}]
  \cup [signedTransaction : {JsUndefined}, serializedTransaction : {JsUndefined},
        walletAddress : {JsUndefined}, signedTx : BatchValues]
  \cup [signedTransaction : {JsUndefined, JsStr("b64:txA")},
        serializedTransaction : {JsUndefined, JsStr("b64:txA")},
        walletAddress : {JsUndefined, JsStr("addr-1")},
        signedTx : {JsUndefined, JsArr(<<"b64:txA">>)}]

Routes == {"GET /health", "POST /api/transfer/send-with-sponsor",
           "POST /api/transfer/signed-transaction-gasless"}

EmptyBody ==
  [signedTransaction |-> JsUndefined, serializedTransaction |-> JsUndefined,
   walletAddress |-> JsUndefined, signedTx |-> JsUndefined]

---------------------------------------------------------------------------
\* Messages, URLs and response bodies

\* A message string: a literal, or a template with a status and a detail.
Msg(p, st, d) == [prefix |-> p, status |-> st, detail |-> d]
Lit(text) == Msg(text, 0, "")

\* error.message || fallback
MessageOr(message, fallback) == IF message = Lit("") THEN Lit(fallback) ELSE message

NoBody == [error |-> <<>>, hint |-> <<>>, debug |-> <<>>, data |-> <<>>, health |-> <<>>]

Response(st, body) == [status |-> st, body |-> body]

ErrorBody(message) == [NoBody EXCEPT !.error = <<message>>]

\* No reply of the provider received yet.
NoReply ==
  [status |-> 0, kind |-> "none", text |-> "", parseDetail |-> "", error |-> JsUndefined,
   result |-> JsUndefined]

\* The handler's local variables before it assigns them.
InitLocals ==
  [response |-> NoReply, transaction |-> "", signedTransaction |-> "", network |-> "",
   rpcEndpoint |-> "", signature |-> JsUndefined]

Call(api, target, arg) ==
  [api |-> api, target |-> target, arg |-> arg, returned |-> FALSE, ok |-> FALSE,
   ret |-> JsUndefined, message |-> Lit("")]

---------------------------------------------------------------------------
Init ==
  /\ env \in Envs
  /\ req = [route |-> "GET /health", body |-> EmptyBody]
  /\ pc = "idle"
  /\ locals = InitLocals
  /\ calls = <<>>
  /\ responses = <<>>

\* Express dispatches a request to its route handler.
Receive(route, body) ==
  /\ pc \in {"idle", "done"}
  /\ req' = [route |-> route, body |-> body]
  /\ pc' = "received"
  /\ locals' = InitLocals
  /\ calls' = <<>>
  /\ responses' = <<>>
  /\ UNCHANGED env

---------------------------------------------------------------------------
\* GET /health

HealthBody(e) ==
  [NoBody EXCEPT !.health =
     <<[status |-> "healthy",
        gasSponsorship |-> "Privy Managed Wallet (Fee Payer)",
        privyConfigured |-> Truthy(e.PRIVY_APP_ID) /\ Truthy(e.PRIVY_APP_SECRET),
        feePayerConfigured |-> Truthy(e.PRIVY_FEE_PAYER_WALLET_ID)]>>]

Health ==
  /\ pc = "received"
  /\ req.route = "GET /health"
  /\ responses' = Append(responses, Response(200, HealthBody(env)))
  /\ pc' = "done"
  /\ UNCHANGED <<env, req, locals, calls>>

---------------------------------------------------------------------------
\* Pieces shared by the two submit handlers

\* Faulty variant: only an absent field counts as missing.
MissingFieldOnlyUndefined(v) == v.t = "undefined"

\* if (!field): the required body field is missing
MissingField(v) == ~Truthy(v)

\* The explorer link `https://solscan.io/tx/${signature}${query}`.
ExplorerUrl(signature, query) ==
  [base |-> "https://solscan.io/tx/", signature |-> TemplateString(signature),
   query |-> query]

SuccessBody(signature, message, explorer) ==
  [NoBody EXCEPT !.data =
     <<[signature |-> signature, message |-> message, explorer |-> explorer]>>]

\* The last call of the log, completed with its outcome.
Returned(log, ok, ret, message) ==
  [log EXCEPT ![Len(log)] =
     [@ EXCEPT !.returned = TRUE, !.ok = ok, !.ret = ret, !.message = message]]

---------------------------------------------------------------------------
\* POST /api/transfer/send-with-sponsor

\* `https://rpc.privy.io/solana/${process.env.PRIVY_APP_ID}`
PrivyRpcUrl(e) == TemplateString(e.PRIVY_APP_ID)

\* catch (error): the 500 response of the direct-sponsor handler
SponsorCatch(message) ==
  <<Response(500, ErrorBody(MessageOr(message, "Failed to send gasless transaction")))>>

\* The handler up to its first await: validation, then the fetch is issued.
SponsorStart ==
  /\ pc = "received"
  /\ req.route = "POST /api/transfer/send-with-sponsor"
  /\ IF MissingField(req.body.signedTransaction)
     THEN /\ responses' = Append(responses, Response(400, ErrorBody(Lit("Missing signedTransaction"))))
          /\ pc' = "done"
          /\ UNCHANGED calls
     ELSE /\ calls' = Append(calls, Call("fetch", PrivyRpcUrl(env), req.body.signedTransaction))
          /\ pc' = "awaitFetch"
          /\ UNCHANGED responses
  /\ UNCHANGED <<env, req, locals>>

\* Replies of the provider's RPC endpoint: the HTTP status and the body,
\* which is text that is not JSON, the JSON value null, or a JSON object
\* with optional error and result members.  For text that is not JSON,
\* parseDetail is what the runtime's JSON parser quotes of it in its error
\* message: the text, or nothing.
HttpStatuses == {200, 204, 400, 500}

RpcErrors == {JsUndefined, JsNull, JsObj("AlreadyProcessed"), JsObj("InsufficientFunds")}

RpcResults == {JsUndefined, JsNull, JsStr("sig-1"), JsStr("sig-2")}

ProviderReplies ==
  {[status |-> st, kind |-> "text", text |-> t, parseDetail |-> d,
    error |-> JsUndefined, result |-> JsUndefined] :
      st \in HttpStatuses, t \in {"Bad Gateway"}, d \in {"", "Bad Gateway"}}
  \cup [status : HttpStatuses, kind : {"null"}, text : {"null"}, parseDetail : {""},
        error : {JsUndefined}, result : {JsUndefined}]
  \cup [status : HttpStatuses, kind : {"object"}, text : {"{...}"}, parseDetail : {""},
        error : RpcErrors, result : RpcResults]

\* response.ok
ResponseOk(reply) == reply.status >= 200 /\ reply.status <= 299

\* Faulty variant: the error member of the reply is not looked at.
HasRpcErrorIgnored(reply) == FALSE

\* if (result.error)
HasRpcError(reply) == Truthy(reply.error)

\* The error thrown while the reply is read, none when the reply is a
\* JSON object without a truthy error member.
SponsorFailure(reply) ==
  IF ~ResponseOk(reply)
  THEN <<Msg("Privy RPC error: ", reply.status, reply.text)>>
  ELSE IF reply.kind = "text"
  THEN <<Msg("SyntaxError: Unexpected token in JSON", 0, reply.parseDetail)>>
  ELSE IF reply.kind = "null"
  THEN <<Lit("TypeError: Cannot read properties of null (reading 'error')")>>
  ELSE IF HasRpcError(reply)
  THEN <<Msg("RPC error: ", 0, reply.error.s)>>
  ELSE <<>>

\* The handler after the fetch resolved: the responses it sends.
SponsorOnReply(reply) ==
  IF SponsorFailure(reply) # <<>>
  THEN SponsorCatch(SponsorFailure(reply)[1])
  ELSE <<Response(200,
           SuccessBody(reply.result, "Gasless transaction sent (gas paid by Privy)",
                       ExplorerUrl(reply.result, "")))>>

SponsorFetchResolved(reply) ==
  /\ pc = "awaitFetch"
  /\ calls' = Returned(calls, TRUE, JsObj(reply.text), Lit(""))
  /\ locals' = [locals EXCEPT !.response = reply,
                              !.signature = IF SponsorFailure(reply) = <<>>
                                            THEN reply.result ELSE @]
  /\ responses' = responses \o SponsorOnReply(reply)
  /\ pc' = "done"
  /\ UNCHANGED <<env, req>>

\* fetch rejects: the provider cannot be reached.
FetchFailures == {Lit("fetch failed")}

SponsorFetchRejected(message) ==
  /\ pc = "awaitFetch"
  /\ calls' = Returned(calls, FALSE, JsUndefined, message)
  /\ responses' = responses \o SponsorCatch(message)
  /\ pc' = "done"
  /\ UNCHANGED <<env, req, locals>>

---------------------------------------------------------------------------
\* POST /api/transfer/signed-transaction-gasless

\* Buffer.from(text, 'base64'): the bytes a base64 string stands for.
Base64Decode(text) ==
  CASE text = "b64:txA" -> "bytes:txA"
    [] text = "b64:txB" -> "bytes:txB"
    [] text = "b64:junk" -> "bytes:junk"
    [] text = "b64:cosigned-1" -> "bytes:cosigned-1"
    [] text = "b64:cosigned-2" -> "bytes:cosigned-2"
    [] OTHER -> "bytes:"

\* Transaction.from(Buffer.from(value, 'base64')): the parsed transaction,
\* or the exception thrown for a value that is no string or no transaction.
TransactionFrom(value) ==
  IF value.t # "string"
  THEN [threw |-> TRUE, tx |-> "", message |-> Lit("TypeError: the first argument must be of type string")]
  ELSE CASE Base64Decode(value.s) = "bytes:txA" ->
              [threw |-> FALSE, tx |-> "tx:A", message |-> Lit("")]
         [] Base64Decode(value.s) = "bytes:txB" ->
              [threw |-> FALSE, tx |-> "tx:B", message |-> Lit("")]
         [] OTHER ->
              [threw |-> TRUE, tx |-> "", message |-> Lit("Error: failed to deserialize transaction")]

\* transaction.serialize({ requireAllSignatures: false })
Serialize(tx) ==
  CASE tx = "tx:A" -> "bytes:txA"
    [] tx = "tx:B" -> "bytes:txB"
    [] OTHER -> "bytes:"

\* Faulty variant: the secret's flag reports the application id.
DebugFlagsWrongKey(e) ==
  [appIdConfigured |-> Truthy(e.PRIVY_APP_ID),
   appSecretConfigured |-> ~Truthy(e.PRIVY_APP_SECRET),
   feePayerConfigured |-> Truthy(e.PRIVY_FEE_PAYER_WALLET_ID)]

\* The debug member of the catch block's response.
DebugFlags(e) ==
  [appIdConfigured |-> Truthy(e.PRIVY_APP_ID),
   appSecretConfigured |-> Truthy(e.PRIVY_APP_SECRET),
   feePayerConfigured |-> Truthy(e.PRIVY_FEE_PAYER_WALLET_ID)]

\* Faulty variant: the catch block logs the error and sends nothing.
GaslessCatchLogOnly(message, e) == <<>>

\* catch (error): the 500 response of the managed-fee-payer handler
GaslessCatch(message, e) ==
  <<Response(500,
      [ErrorBody(MessageOr(message, "Failed to process gasless transaction"))
         EXCEPT !.debug = <<DebugFlags(e)>>])>>

\* Faulty variant: the fee-payer check comes first.
GaslessConfigErrorSwapped(e) ==
  IF ~Truthy(e.PRIVY_FEE_PAYER_WALLET_ID)
  THEN <<Response(500,
           [ErrorBody(Lit("Fee payer wallet ID not configured. Please set PRIVY_FEE_PAYER_WALLET_ID in your .env file"))
              EXCEPT !.hint = <<"Get the wallet ID from your Privy dashboard under Managed Wallets">>])>>
  ELSE IF ~Truthy(e.PRIVY_APP_ID) \/ ~Truthy(e.PRIVY_APP_SECRET)
  THEN <<Response(500, ErrorBody(Lit("Privy credentials not configured")))>>
  ELSE <<>>

\* The two configuration checks, in the order of the code: the responses
\* sent, none when the configuration is complete.
GaslessConfigError(e) ==
  IF ~Truthy(e.PRIVY_APP_ID) \/ ~Truthy(e.PRIVY_APP_SECRET)
  THEN <<Response(500, ErrorBody(Lit("Privy credentials not configured")))>>
  ELSE IF ~Truthy(e.PRIVY_FEE_PAYER_WALLET_ID)
  THEN <<Response(500,
           [ErrorBody(Lit("Fee payer wallet ID not configured. Please set PRIVY_FEE_PAYER_WALLET_ID in your .env file"))
              EXCEPT !.hint = <<"Get the wallet ID from your Privy dashboard under Managed Wallets">>])>>
  ELSE <<>>

\* process.env.SOLANA_NETWORK || 'mainnet-beta'
Network(e) == OrElse(e.SOLANA_NETWORK, JsStr("mainnet-beta")).s

RpcEndpoint(network) ==
  IF network = "mainnet-beta"
  THEN "https://api.mainnet-beta.solana.com"
  ELSE "https://api.devnet.solana.com"

\* Faulty variant: the link never names a cluster.
ExplorerQueryNone(network) == ""

\* ${network !== 'mainnet-beta' ? '?cluster=devnet' : ''}
ExplorerQuery(network) == IF network # "mainnet-beta" THEN "?cluster=devnet" ELSE ""

\* Faulty variant: the client's blob is broadcast instead of the co-signed one.
BroadcastBlobOriginal(cosigned, original) == Base64Decode(original)

\* The blob handed to sendRawTransaction: the one the co-sign call returned.
BroadcastBlob(cosigned, original) == Base64Decode(cosigned)

\* The handler up to its first await: validation, configuration checks,
\* deserialization, then the co-sign call is issued.
GaslessStart ==
  /\ pc = "received"
  /\ req.route = "POST /api/transfer/signed-transaction-gasless"
  /\ LET parsed == TransactionFrom(req.body.serializedTransaction)
     IN IF MissingField(req.body.serializedTransaction)
        THEN /\ responses' = Append(responses, Response(400, ErrorBody(Lit("Missing serializedTransaction"))))
             /\ pc' = "done"
             /\ UNCHANGED <<calls, locals>>
        ELSE IF GaslessConfigError(env) # <<>>
        THEN /\ responses' = responses \o GaslessConfigError(env)
             /\ pc' = "done"
             /\ UNCHANGED <<calls, locals>>
        ELSE IF parsed.threw
        THEN /\ responses' = responses \o GaslessCatch(parsed.message, env)
             /\ pc' = "done"
             /\ UNCHANGED <<calls, locals>>
        ELSE /\ locals' = [locals EXCEPT !.transaction = parsed.tx]
             /\ calls' = Append(calls, Call("privy.signSolanaTransaction",
                                            env.PRIVY_FEE_PAYER_WALLET_ID.s,
                                            JsStr(Serialize(parsed.tx))))
             /\ pc' = "awaitSign"
             /\ UNCHANGED responses
  /\ UNCHANGED <<env, req>>

CosignedBlobs == {"b64:cosigned-1", "b64:cosigned-2"}

SignFailures == {Lit("Privy: wallet not found"), Lit("Privy: invalid transaction")}

\* The co-sign call resolved: the network is chosen and the broadcast issued.
GaslessSignResolved(cosigned) ==
  /\ pc = "awaitSign"
  /\ locals' = [locals EXCEPT !.signedTransaction = cosigned,
                              !.network = Network(env),
                              !.rpcEndpoint = RpcEndpoint(Network(env))]
  /\ calls' = Append(Returned(calls, TRUE, JsStr(cosigned), Lit("")),
                     Call("connection.sendRawTransaction", RpcEndpoint(Network(env)),
                          JsStr(BroadcastBlob(cosigned, req.body.serializedTransaction.s))))
  /\ pc' = "awaitSend"
  /\ UNCHANGED <<env, req, responses>>

\* An awaited call of the managed-fee-payer handler rejected.
GaslessRejected(at, message) ==
  /\ pc = at
  /\ calls' = Returned(calls, FALSE, JsUndefined, message)
  /\ responses' = responses \o GaslessCatch(message, env)
  /\ pc' = "done"
  /\ UNCHANGED <<env, req, locals>>

Signatures == {"sig-1", "sig-2"}

SendFailures == {Lit("failed to send transaction: Blockhash not found"),
                 Lit("failed to send transaction: already been processed")}

\* The broadcast resolved with the signature: the confirmation wait starts.
GaslessSendResolved(signature) ==
  /\ pc = "awaitSend"
  /\ locals' = [locals EXCEPT !.signature = JsStr(signature)]
  /\ calls' = Append(Returned(calls, TRUE, JsStr(signature), Lit("")),
                     Call("connection.confirmTransaction", locals.rpcEndpoint,
                          JsStr(signature)))
  /\ pc' = "awaitConfirm"
  /\ UNCHANGED <<env, req, responses>>

ConfirmFailures == {Lit("Transaction was not confirmed in 30.00 seconds")}

\* The outcome the node reports for a confirmed transaction; the code does
\* not read it.
ConfirmValues == {JsObj("err: null"), JsObj("err: InstructionError")}

\* The confirmation wait resolved: the success response is sent.
GaslessConfirmResolved(value) ==
  /\ pc = "awaitConfirm"
  /\ calls' = Returned(calls, TRUE, value, Lit(""))
  /\ responses' = Append(responses,
       Response(200,
         SuccessBody(locals.signature,
                     "Gasless transaction sent (gas paid by Privy managed wallet)",
                     ExplorerUrl(locals.signature, ExplorerQuery(locals.network)))))
  /\ pc' = "done"
  /\ UNCHANGED <<env, req, locals>>

Next ==
  \/ \E r \in Routes, b \in Bodies : Receive(r, b)
  \/ Health
  \/ SponsorStart
  \/ \E reply \in ProviderReplies : SponsorFetchResolved(reply)
  \/ \E m \in FetchFailures : SponsorFetchRejected(m)
  \/ GaslessStart
  \/ \E b \in CosignedBlobs : GaslessSignResolved(b)
  \/ \E m \in SignFailures : GaslessRejected("awaitSign", m)
  \/ \E sig \in Signatures : GaslessSendResolved(sig)
  \/ \E m \in SendFailures : GaslessRejected("awaitSend", m)
  \/ \E v \in ConfirmValues : GaslessConfirmResolved(v)
  \/ \E m \in ConfirmFailures : GaslessRejected("awaitConfirm", m)

Spec == Init /\ [][Next]_vars
---------------------------------------------------------------------------
\* Vocabulary of the properties

IsSponsor == req.route = "POST /api/transfer/send-with-sponsor"
IsGasless == req.route = "POST /api/transfer/signed-transaction-gasless"
InHandler == pc # "idle"
Responded == pc = "done" /\ Len(responses) = 1
Status == responses[1].status
Body == responses[1].body
HasErrorKey == Body.error # <<>>

\* A body field that is absent, null or the empty string.
Empty(v) == v \in {JsUndefined, JsNull, JsStr("")}
\* A body field holding a base64 string.
IsBlob(v) == v.t = "string" /\ v.s # ""
Configured(v) == v.t = "string" /\ v.s # ""

CredentialsMessage == Lit("Privy credentials not configured")
FeePayerMessage ==
  Lit("Fee payer wallet ID not configured. Please set PRIVY_FEE_PAYER_WALLET_ID in your .env file")

\* C1: a submit request without a non-empty blob field is answered 400 with
\* an error key, whatever the configuration, and no outbound call is made.
C1_MissingFieldIs400 ==
  (InHandler /\ ( (IsSponsor /\ Empty(req.body.signedTransaction))
               \/ (IsGasless /\ Empty(req.body.serializedTransaction)) ))
  => /\ calls = <<>>
     /\ pc \in {"received", "done"}
     /\ pc = "done" => (Len(responses) = 1 /\ Status = 400 /\ HasErrorKey)

C1_Witness ==
  /\ Responded /\ IsGasless
  /\ req.body.serializedTransaction = JsStr("")
  /\ ~Configured(env.PRIVY_APP_ID)
  /\ Status = 400 /\ HasErrorKey /\ calls = <<>>

\* C2: a submit request with a valid body, handled while a configuration
\* value the operation requires is absent, makes no outbound call and is
\* answered 500 with an error naming the missing configuration.
C2_MissingConfigShortCircuits ==
  LET credentialsAbsent ==
        ~Configured(env.PRIVY_APP_ID) \/ ~Configured(env.PRIVY_APP_SECRET)
      absent ==
        \/ IsSponsor /\ IsBlob(req.body.signedTransaction) /\ credentialsAbsent
        \/ /\ IsGasless /\ IsBlob(req.body.serializedTransaction)
           /\ (credentialsAbsent \/ ~Configured(env.PRIVY_FEE_PAYER_WALLET_ID))
  IN (InHandler /\ absent)
     => /\ calls = <<>>
        /\ pc = "done" => /\ Len(responses) = 1 /\ Status = 500
                          /\ Body.error \in {<<CredentialsMessage>>, <<FeePayerMessage>>}

\* The reply is one of the three failures of the direct-sponsor operation.
ProviderFailed(reply) ==
  \/ reply.status < 200 \/ reply.status > 299
  \/ reply.kind = "text"
  \/ reply.kind = "object" /\ reply.error.t = "object"

\* The message carries the body text of the reply, or its error object.
CarriesProviderMessage(message, reply) ==
  \/ message.detail = reply.text
  \/ reply.error.t = "object" /\ message.detail = reply.error.s

\* The message carries the HTTP status of the reply.
CarriesProviderStatus(message, reply) == message.status = reply.status

SponsorReplied ==
  /\ Responded /\ IsSponsor
  /\ Len(calls) >= 1 /\ calls[1].returned /\ calls[1].ok

\* C3 as stated: on a non-2xx status, a body that is not JSON or a JSON-RPC
\* error object, the direct-sponsor operation answers 500 with a message
\* carrying the provider's status or message, after exactly one provider call.
C3_ProviderFailureCarriesProviderMessage ==
  (SponsorReplied /\ ProviderFailed(locals.response))
  => /\ Status = 500 /\ HasErrorKey
     /\ \/ CarriesProviderMessage(Body.error[1], locals.response)
        \/ CarriesProviderStatus(Body.error[1], locals.response)
     /\ Len(calls) = 1 /\ calls[1].api = "fetch"

\* C3 amended: the same, with the message carrying the status and body text
\* of a non-2xx reply or the JSON-RPC error object, except that for a 2xx
\* reply whose body is not JSON the message is the JSON parser's: it never
\* carries the status and carries of the body only what the parser quotes.
C3_ProviderFailureIs500 ==
  (SponsorReplied /\ ProviderFailed(locals.response))
  => /\ Status = 500 /\ HasErrorKey
     /\ Len(calls) = 1 /\ calls[1].api = "fetch"
     /\ IF ~ResponseOk(locals.response)
        THEN /\ CarriesProviderStatus(Body.error[1], locals.response)
             /\ CarriesProviderMessage(Body.error[1], locals.response)
        ELSE IF locals.response.kind = "text"
        THEN /\ ~CarriesProviderStatus(Body.error[1], locals.response)
             /\ Body.error[1].prefix = "SyntaxError: Unexpected token in JSON"
             /\ Body.error[1].detail = locals.response.parseDetail
        ELSE Body.error[1] = Msg("RPC error: ", 0, locals.response.error.s)

C3_Witness ==
  /\ SponsorReplied
  /\ locals.response.status = 200
  /\ locals.response.error = JsObj("AlreadyProcessed")
  /\ Status = 500
  /\ Body.error = <<Msg("RPC error: ", 0, "AlreadyProcessed")>>
  /\ Len(calls) = 1

\* The managed-fee-payer request passed validation and the configuration
\* checks.
GaslessAdmitted ==
  /\ InHandler /\ IsGasless
  /\ Truthy(req.body.serializedTransaction)
  /\ Configured(env.PRIVY_APP_ID) /\ Configured(env.PRIVY_APP_SECRET)
  /\ Configured(env.PRIVY_FEE_PAYER_WALLET_ID)

StepOrder ==
  <<"privy.signSolanaTransaction", "connection.sendRawTransaction",
    "connection.confirmTransaction">>

\* The bytes a valid client blob re-serializes to.
Reserialized(value) ==
  CASE value = JsStr("b64:txA") -> JsStr("bytes:txA")
    [] value = JsStr("b64:txB") -> JsStr("bytes:txB")
    [] OTHER -> JsUndefined

\* The bytes of a co-signed blob.
CosignedBytes(ret) ==
  CASE ret = JsStr("b64:cosigned-1") -> JsStr("bytes:cosigned-1")
    [] ret = JsStr("b64:cosigned-2") -> JsStr("bytes:cosigned-2")
    [] OTHER -> JsUndefined

\* C4: the managed-fee-payer operation runs deserialize, co-sign, broadcast,
\* confirm, respond in that order: each call is issued only after the one
\* before it succeeded, the broadcast carries the co-signed blob, 200 is sent
\* only after the confirmation wait succeeded, and a failed step ends the
\* request with a 500 carrying that step's message.
C4_StepsInOrder ==
  GaslessAdmitted
  => /\ Len(calls) <= 3
     /\ \A i \in 1..Len(calls) :
          /\ calls[i].api = StepOrder[i]
          /\ i < Len(calls) => (calls[i].returned /\ calls[i].ok)
     /\ Len(calls) >= 1 =>
          /\ Reserialized(req.body.serializedTransaction) # JsUndefined
          /\ calls[1].arg = Reserialized(req.body.serializedTransaction)
     /\ Len(calls) >= 2 => calls[2].arg = CosignedBytes(calls[1].ret)
     /\ Len(calls) >= 3 => calls[3].arg = calls[2].ret
     /\ pc = "done" =>
          /\ Len(responses) = 1
          /\ Status \in {200, 500}
          /\ Status = 200 =>
               /\ Len(calls) = 3 /\ calls[3].returned /\ calls[3].ok
               /\ Body.data[1].signature = calls[2].ret
          /\ Status = 500 =>
               IF calls = <<>>
               THEN /\ Reserialized(req.body.serializedTransaction) = JsUndefined
                    /\ Body.error[1].prefix \in
                         {"TypeError: the first argument must be of type string",
                          "Error: failed to deserialize transaction"}
               ELSE /\ calls[Len(calls)].returned /\ ~calls[Len(calls)].ok
                    /\ Body.error = <<calls[Len(calls)].message>>
     /\ pc # "done" => responses = <<>>

C4_Witness ==
  /\ GaslessAdmitted /\ Responded /\ Status = 200
  /\ Len(calls) = 3
  /\ calls[1].ret = JsStr("b64:cosigned-2")
  /\ calls[2].arg = JsStr("bytes:cosigned-2")
  /\ req.body.serializedTransaction = JsStr("b64:txB")

\* The managed-fee-payer request passed validation.
GaslessValidBody == InHandler /\ IsGasless /\ Truthy(req.body.serializedTransaction)

\* C5 as stated: with a valid body, an absent fee-payer wallet id is reported
\* whether or not the credentials are absent too, and absent credentials are
\* reported as such.
C5_BothAbsencesReported ==
  (GaslessValidBody /\ pc = "done")
  => /\ ~Configured(env.PRIVY_FEE_PAYER_WALLET_ID)
          => (Len(responses) = 1 /\ Status = 500 /\ Body.error = <<FeePayerMessage>>)
     /\ (~Configured(env.PRIVY_APP_ID) \/ ~Configured(env.PRIVY_APP_SECRET))
          => (Len(responses) = 1 /\ Status = 500 /\ Body.error = <<CredentialsMessage>>)

\* C5 amended: absent credentials are reported whether or not the fee-payer
\* wallet id is absent too; an absent fee-payer wallet id is reported when
\* both credentials are present; the two reports differ.
C5_CredentialsReportedFirst ==
  (GaslessValidBody /\ pc = "done")
  => /\ (~Configured(env.PRIVY_APP_ID) \/ ~Configured(env.PRIVY_APP_SECRET))
          => (Len(responses) = 1 /\ Status = 500 /\ Body.error = <<CredentialsMessage>>)
     /\ ( /\ Configured(env.PRIVY_APP_ID) /\ Configured(env.PRIVY_APP_SECRET)
          /\ ~Configured(env.PRIVY_FEE_PAYER_WALLET_ID) )
          => (Len(responses) = 1 /\ Status = 500 /\ Body.error = <<FeePayerMessage>>)
     /\ CredentialsMessage # FeePayerMessage

C5_Witness ==
  /\ GaslessValidBody /\ Responded
  /\ ~Configured(env.PRIVY_FEE_PAYER_WALLET_ID)
  /\ Configured(env.PRIVY_APP_ID) /\ Configured(env.PRIVY_APP_SECRET)
  /\ Status = 500 /\ Body.error = <<FeePayerMessage>>

PresenceFlags ==
  [appIdConfigured |-> Configured(env.PRIVY_APP_ID),
   appSecretConfigured |-> Configured(env.PRIVY_APP_SECRET),
   feePayerConfigured |-> Configured(env.PRIVY_FEE_PAYER_WALLET_ID)]

\* The strings of a response body.
BodyStrings(body) ==
  {body.error[i].prefix : i \in DOMAIN body.error}
  \cup {body.error[i].detail : i \in DOMAIN body.error}
  \cup {body.hint[i] : i \in DOMAIN body.hint}
  \cup {body.data[i].signature.s : i \in DOMAIN body.data}
  \cup {body.data[i].message : i \in DOMAIN body.data}
  \cup {body.data[i].explorer.signature : i \in DOMAIN body.data}
  \cup {body.health[i].gasSponsorship : i \in DOMAIN body.health}

NoSecretInResponses ==
  \A i \in DOMAIN responses :
    Configured(env.PRIVY_APP_SECRET) => env.PRIVY_APP_SECRET.s \notin BodyStrings(responses[i].body)

\* The 500 was sent by a configuration check of the managed-fee-payer operation.
ConfigurationError ==
  /\ GaslessValidBody /\ Responded
  /\ \/ ~Configured(env.PRIVY_APP_ID) \/ ~Configured(env.PRIVY_APP_SECRET)
     \/ ~Configured(env.PRIVY_FEE_PAYER_WALLET_ID)

\* The 500 was sent for a failed step of the managed-fee-payer operation.
StepFailed == GaslessAdmitted /\ Responded /\ Status = 500

\* C6 as stated: the 500 of a configuration error and the 500 of a failed
\* step both carry the three presence flags, and no body holds the secret.
C6_FlagsOnEvery500 ==
  /\ (ConfigurationError \/ StepFailed) => (Status = 500 /\ Body.debug = <<PresenceFlags>>)
  /\ NoSecretInResponses

\* C6 amended: the 500 of a failed step carries the three presence flags,
\* each equal to whether the value is configured; the 500 of a configuration
\* error carries no flags; no body holds the secret.
C6_FlagsOnStepFailure ==
  /\ StepFailed => Body.debug = <<PresenceFlags>>
  /\ ConfigurationError => (Status = 500 /\ HasErrorKey /\ Body.debug = <<>>)
  /\ NoSecretInResponses

C6_Witness ==
  /\ StepFailed
  /\ Len(calls) = 2 /\ ~calls[2].ok
  /\ Body.debug = <<[appIdConfigured |-> TRUE, appSecretConfigured |-> TRUE,
                     feePayerConfigured |-> TRUE]>>

\* The configured network, the primary one when none is set.
ConfiguredNetwork ==
  IF Configured(env.SOLANA_NETWORK) THEN env.SOLANA_NETWORK.s ELSE "mainnet-beta"

\* The query parameter naming a cluster.
ClusterParam(network) ==
  CASE network = "devnet" -> "?cluster=devnet"
    [] network = "testnet" -> "?cluster=testnet"
    [] OTHER -> ""

SubmitSucceeded == Responded /\ (IsSponsor \/ IsGasless) /\ Status = 200

\* C7 as stated: the explorer link of every successful submission names the
\* configured network's cluster when that network is not the primary one,
\* and names no cluster when it is.
C7_ExplorerNamesConfiguredCluster ==
  (SubmitSucceeded /\ Body.data[1].signature \in {JsStr("sig-1"), JsStr("sig-2")})
  => Body.data[1].explorer.query = ClusterParam(ConfiguredNetwork)

\* C7 amended: the link of a successful managed-fee-payer submission carries
\* ?cluster=devnet when the configured network is any other than
\* mainnet-beta, and no cluster parameter when it is mainnet-beta or unset;
\* the link of a successful direct-sponsor submission never carries one.
C7_ExplorerNamesDevnetOffMainnet ==
  SubmitSucceeded
  => Body.data[1].explorer.query =
       IF IsGasless /\ ConfiguredNetwork # "mainnet-beta" THEN "?cluster=devnet" ELSE ""

C7_Witness ==
  /\ SubmitSucceeded /\ IsGasless
  /\ env.SOLANA_NETWORK = JsStr("testnet")
  /\ Body.data[1].explorer.query = "?cluster=devnet"
  /\ calls[2].target = "https://api.devnet.solana.com"

\* The request is a batch: a non-empty signedTx array and nothing else.
IsBatch ==
  /\ IsGasless
  /\ req.body.signedTx.t = "array" /\ Len(req.body.signedTx.l) >= 1
  /\ req.body.serializedTransaction = JsUndefined

\* C8: the blobs of a batch are submitted one at a time in input order up
\* to the first that fails; the answer is 200 when none failed, otherwise a
\* single 500 naming the failed item and holding no signature.
C8_BatchSubmittedInOrder ==
  (Responded /\ IsBatch)
  => \E k \in 1..Len(req.body.signedTx.l) :
       /\ Len(calls) = k
       /\ \A i \in 1..k :
            /\ calls[i].arg = JsStr(req.body.signedTx.l[i])
            /\ calls[i].returned
            /\ i < k => calls[i].ok
       /\ IF calls[k].ok
          THEN k = Len(req.body.signedTx.l) /\ Status = 200
          ELSE Status = 500 /\ HasErrorKey /\ Body.error[1].status = k /\ Body.data = <<>>

Suspended == pc \in {"awaitFetch", "awaitSign", "awaitSend", "awaitConfirm"}

\* C9: a handler sends exactly one response: none before it finishes, one
\* when it has, an error key on every failure; it is suspended only while
\* an outbound call is outstanding.
C9_ExactlyOneResponse ==
  /\ pc = "done" => (Len(responses) = 1 /\ (Status = 200 \/ HasErrorKey))
  /\ pc # "done" => responses = <<>>
  /\ Suspended => (calls # <<>> /\ ~calls[Len(calls)].returned)
  /\ (pc = "done" /\ calls # <<>>) =>
       /\ calls[Len(calls)].returned
       /\ ~calls[Len(calls)].ok => (Len(responses) = 1 /\ Status = 500 /\ HasErrorKey)

C9_Witness ==
  /\ Responded /\ IsGasless
  /\ Len(calls) = 3 /\ calls[3].returned /\ ~calls[3].ok
  /\ Status = 500 /\ HasErrorKey

\* C10: every 200 of the direct-sponsor operation carries the signature
\* string of the provider's result member, never an absent signature.
C10_SuccessCarriesSignature ==
  (Responded /\ IsSponsor /\ Status = 200)
  => /\ Body.data[1].signature.t = "string"
     /\ Body.data[1].signature.s # ""
     /\ Body.data[1].signature = locals.response.result

====
